---- MODULE Spec2Model ----
(***************************************************************************)
(* A model of package clilog (src/clilog.go): CLIHandler, a slog.Handler   *)
(* that renders one record as one line of text and writes it to an         *)
(* io.Writer under a mutex.                                                *)
(*                                                                         *)
(* Go strings are TLA+ strings; \o is Go's string concatenation.           *)
(***************************************************************************)
EXTENDS Integers, Sequences, FiniteSets, TLC

\* ------------------------------------------------------------------ bounds
NumThreads == 2      \* goroutines calling the handler concurrently
MaxHandlers == 2     \* CLIHandler values of a concurrent run
MaxCalls == 2        \* Handle calls of a concurrent run, all goroutines together
MaxTree == 3         \* CLIHandler values of a run that derives handlers
MaxChain == 4        \* WithAttrs/WithGroup calls of a scripted run
MaxSize == 3         \* attributes, groups included, of a generated attribute list
MaxEnabledCalls == 2 \* Enabled calls of a run

\* ------------------------------------------------------- slog.Value, Attr
\* The kinds of slog.Value the model covers. A Value keeps its payload in
\* num (Bool, Int64), str (String) or group (Group); the zero Value is KindAny
\* holding nil.
AnyValue == [Kind |-> "Any", num |-> 0, str |-> "", group |-> <<>>]
IntValue(n) == [Kind |-> "Int64", num |-> n, str |-> "", group |-> <<>>]
BoolValue(b) == [Kind |-> "Bool", num |-> IF b THEN 1 ELSE 0, str |-> "", group |-> <<>>]
StringValue(s) == [Kind |-> "String", num |-> 0, str |-> s, group |-> <<>>]
GroupValue(as) == [Kind |-> "Group", num |-> 0, str |-> "", group |-> as]

Attr(k, v) == [Key |-> k, Value |-> v]

\* slog.Attr{}: the empty key with the zero Value.
EmptyAttr == Attr("", AnyValue)

\* Value.Equal: the same kind and the same payload of that kind.
ValueEqual(v, w) ==
    /\ v.Kind = w.Kind
    /\ CASE v.Kind = "Int64" -> v.num = w.num
         [] v.Kind = "Bool" -> v.num = w.num
         [] v.Kind = "String" -> v.str = w.str
         [] v.Kind = "Group" -> v.group = w.group
         [] v.Kind = "Any" -> TRUE

\* Attr.Equal: equal keys and equal values.
AttrEqual(a, b) == a.Key = b.Key /\ ValueEqual(a.Value, b.Value)

\* ---------------------------------------------------------- number printing
Digits == <<"0", "1", "2", "3", "4", "5", "6", "7", "8", "9">>

RECURSIVE NatToStr(_)
NatToStr(n) == IF n < 10 THEN Digits[n + 1] ELSE NatToStr(n \div 10) \o Digits[(n % 10) + 1]

\* fmt's %v of an integer: decimal, with a minus sign below zero.
IntToStr(n) == IF n < 0 THEN "-" \o NatToStr(0 - n) ELSE NatToStr(n)

\* A number in at least w decimal digits, zero padded (time.Format's 01, 02, 2006).
RECURSIVE Pad(_, _)
Pad(n, w) == IF w <= 1 \/ n >= 10 ^ (w - 1) THEN NatToStr(n) ELSE "0" \o Pad(n, w - 1)

\* fmt's %v of a slog.Value that is not a group (Value.String).
ValueString(v) ==
    CASE v.Kind = "String" -> v.str
      [] v.Kind = "Int64" -> IntToStr(v.num)
      [] v.Kind = "Bool" -> (IF v.num = 1 THEN "true" ELSE "false")
      [] v.Kind = "Any" -> "<nil>"

\* ------------------------------------------------------------- slog.Level
LevelInfo == 0

\* LevelDebug, LevelInfo, LevelWarn, LevelError.
Levels == {0 - 4, 0, 4, 8}

\* fmt's %+d.
SignedStr(n) == IF n < 0 THEN IntToStr(n) ELSE "+" \o NatToStr(n)

LevelName(base, val) == IF val = 0 THEN base ELSE base \o SignedStr(val)

\* Level.String: the name of the nearest level below, and the distance to it.
LevelString(l) ==
    IF l < 0 THEN LevelName("DEBUG", l + 4)
    ELSE IF l < 4 THEN LevelName("INFO", l)
    ELSE IF l < 8 THEN LevelName("WARN", l - 4)
    ELSE LevelName("ERROR", l - 8)

\* ---------------------------------------------------------------- time.Time
\* A wall clock reading and its offset from UTC in minutes.
Time(y, mo, d, h, mi, s, off) ==
    [year |-> y, month |-> mo, day |-> d, hour |-> h, min |-> mi, sec |-> s, off |-> off]

ZeroTime == Time(1, 1, 1, 0, 0, 0, 0)
testTime == Time(2023, 9, 20, 12, 24, 43, 0)
cestTime == Time(2023, 9, 20, 14, 24, 43, 120)

\* Time.IsZero: the instant January 1, year 1, 00:00:00 UTC.
IsZero(t) ==
    /\ t.year = 1 /\ t.month = 1 /\ t.day = 1
    /\ (t.hour * 60 + t.min) - t.off = 0 /\ t.sec = 0

\* The zone of time.RFC3339, "Z07:00".
ZoneString(off) ==
    IF off = 0 THEN "Z"
    ELSE LET a == IF off < 0 THEN 0 - off ELSE off
         IN (IF off < 0 THEN "-" ELSE "+") \o Pad(a \div 60, 2) \o ":" \o Pad(a % 60, 2)

\* Time.Format(time.RFC3339), "2006-01-02T15:04:05Z07:00".
FormatRFC3339(t) ==
    Pad(t.year, 4) \o "-" \o Pad(t.month, 2) \o "-" \o Pad(t.day, 2) \o "T"
    \o Pad(t.hour, 2) \o ":" \o Pad(t.min, 2) \o ":" \o Pad(t.sec, 2) \o ZoneString(t.off)

\* ------------------------------------------------------------ runtime.Frame
\* Program counters: 0 is "no location"; 1 is a pc the symbol table knows; 2 is
\* one it does not know.
PCs == {0, 1, 2}
SymTab == [pc \in {1} |-> [File |-> "/src/main.go", Line |-> 42]]

\* runtime.CallersFrames([]uintptr{pc}).Next(): the frame of pc, or the zero
\* Frame when pc resolves to nothing.
FrameOf(pc) == IF pc \in DOMAIN SymTab THEN SymTab[pc] ELSE [File |-> "", Line |-> 0]

\* ---------------------------------------------------------------- appendAttr
RECURSIVE appendAttr(_, _)
RECURSIVE appendAttrs(_, _)

\* An appendAttr that gives the children of a group the prefix without the
\* group's key.
appendAttrFlat(group, a) ==
    IF AttrEqual(a, EmptyAttr) THEN ""
    ELSE IF a.Value.Kind # "Group"
         THEN " " \o group \o a.Key \o "=" \o ValueString(a.Value)
         ELSE appendAttrs(group, a.Value.group)

\* An appendAttr that does not skip the empty attribute.
appendAttrNoSkip(group, a) ==
    IF a.Value.Kind # "Group"
    THEN " " \o group \o a.Key \o "=" \o ValueString(a.Value)
    ELSE appendAttrs(IF a.Key # "" THEN group \o a.Key \o "." ELSE group,
                     a.Value.group)

\* The text appendAttr writes for attribute a under the group prefix.
appendAttr(group, a) ==
    IF AttrEqual(a, EmptyAttr) THEN ""
    ELSE IF a.Value.Kind # "Group"
         THEN " " \o group \o a.Key \o "=" \o ValueString(a.Value)
         ELSE appendAttrs(IF a.Key # "" THEN group \o a.Key \o "." ELSE group,
                          a.Value.group)

\* A loop calling appendAttr on each attribute in order, into one builder.
appendAttrs(group, as) ==
    IF as = <<>> THEN ""
    ELSE appendAttr(group, Head(as)) \o appendAttrs(group, Tail(as))

\* ------------------------------------------------------------------- state
VARIABLES
    handlers,     \* the CLIHandler values created so far; a *CLIHandler is an index
    levelVar,     \* the value of the program's *slog.LevelVar
    pc,           \* where each goroutine stands in Handle
    local,        \* each goroutine's Handle call: receiver, record, builder, results
    results,      \* per goroutine, its returned Handle calls in order
    sink,         \* what the io.Writer has received, one entry per Write
    enabledRes,   \* the last Enabled call: receiver, level, minimum read, answer
    enabledCalls, \* how many Enabled calls were made
    input,        \* a scripted run's script and record
    ip            \* how many operations of the script have run

vars == <<handlers, levelVar, pc, local, results, sink, enabledRes, enabledCalls, input, ip>>
driver == <<input, ip>>

Threads == 1 .. NumThreads
Unlocked == 0

\* What a Write reports: "nil", or an error of the sink.
WriteErrors == {"EIO"}
WriteResults == {"nil"} \cup WriteErrors

\* HandlerOptions.Level, a slog.Leveler: nil, a constant slog.Level, or the
\* program's *slog.LevelVar.
NilLeveler == [kind |-> "nil", level |-> 0]
ConstLeveler(l) == [kind |-> "Level", level |-> l]
VarLeveler == [kind |-> "LevelVar", level |-> 0]
Levelers == {NilLeveler, VarLeveler, ConstLeveler(4)}

HandlerOptions == [AddSource : BOOLEAN, Level : Levelers]

\* Leveler.Level().
LevelOf(lv) == IF lv.kind = "LevelVar" THEN levelVar ELSE lv.level

\* The one io.Writer of the program.
W == "w"

\* NewCLIHandler(w, opts): no group, no attrs, an unlocked mutex.
NewCLIHandler(w, opts) ==
    [opts |-> opts, group |-> "", attrs |-> "", mu |-> Unlocked, w |-> w]

\* A WithAttrs that puts the new attributes before the receiver's.
WithAttrsHandlerPrepend(hd, as) ==
    [opts |-> hd.opts, group |-> hd.group,
     attrs |-> appendAttrs(hd.group, as) \o hd.attrs,
     mu |-> Unlocked, w |-> hd.w]

\* The struct WithAttrs returns for receiver hd: mu is not among the fields
\* the literal sets, so it is a new, unlocked mutex.
WithAttrsHandler(hd, as) ==
    [opts |-> hd.opts, group |-> hd.group,
     attrs |-> hd.attrs \o appendAttrs(hd.group, as),
     mu |-> Unlocked, w |-> hd.w]

\* The struct WithGroup returns for receiver hd.
WithGroupHandler(hd, name) ==
    [opts |-> hd.opts, group |-> hd.group \o name \o ".",
     attrs |-> hd.attrs,
     mu |-> Unlocked, w |-> hd.w]

\* slog.Record.
Record(t, l, msg, pcv, as) == [Time |-> t, Level |-> l, Message |-> msg, PC |-> pcv, Attrs |-> as]

\* A source segment that is left out when the frame names no file.
SourceStringOmitUnresolved(opts, r) ==
    IF opts.AddSource /\ r.PC # 0 /\ FrameOf(r.PC).File # ""
    THEN LET f == FrameOf(r.PC) IN f.File \o ":" \o IntToStr(f.Line) \o " "
    ELSE ""

\* The source segment of Handle: the frame's file and line, whatever Next returned.
SourceString(opts, r) ==
    IF opts.AddSource /\ r.PC # 0
    THEN LET f == FrameOf(r.PC) IN f.File \o ":" \o IntToStr(f.Line) \o " "
    ELSE ""

\* What Handle writes into its builder b up to and including the message.
LineHead(opts, r) ==
    (IF ~IsZero(r.Time) THEN FormatRFC3339(r.Time) \o " " ELSE "")
    \o LevelString(r.Level) \o " "
    \o SourceString(opts, r)
    \o r.Message

\* What Handle writes into its builder b before the line terminator.
LineBody(hd, r) ==
    LineHead(hd.opts, r) \o hd.attrs \o appendAttrs(hd.group, r.Attrs)

\* The contents of Handle's builder b when it reaches the lock.
BuildLine(hd, r) == LineBody(hd, r) \o "\n"

NoCall ==
    [h |-> 0, r |-> Record(ZeroTime, 0, "", 0, <<>>), b |-> "", writes |-> 0,
     raced |-> FALSE, werr |-> "nil"]

\* What the sink may hold of a Write that ran while another Write to it ran:
\* the data race leaves the bytes of the two in any mixture.
Torn == "<bytes of two writes>"

\* ----------------------------------------------------------------- actions
\* An Enabled that admits only the levels above the minimum.
EnabledStrict(h, level) ==
    /\ LET minLevel == IF handlers[h].opts.Level.kind # "nil"
                       THEN LevelOf(handlers[h].opts.Level)
                       ELSE LevelInfo
       IN enabledRes' = [h |-> h, level |-> level, min |-> minLevel, ok |-> level > minLevel]
    /\ enabledCalls' = enabledCalls + 1
    /\ UNCHANGED <<handlers, levelVar, pc, local, results, sink>>

\* Enabled(ctx, level) on handler h.
Enabled(h, level) ==
    /\ LET minLevel == IF handlers[h].opts.Level.kind # "nil"
                       THEN LevelOf(handlers[h].opts.Level)
                       ELSE LevelInfo
       IN enabledRes' = [h |-> h, level |-> level, min |-> minLevel, ok |-> level >= minLevel]
    /\ enabledCalls' = enabledCalls + 1
    /\ UNCHANGED <<handlers, levelVar, pc, local, results, sink>>

\* LevelVar.Set(l), by the program that owns the LevelVar.
SetLevel(l) ==
    /\ levelVar' = l
    /\ UNCHANGED <<handlers, pc, local, results, sink, enabledRes, enabledCalls>>

\* h.WithAttrs(attrs): a new handler; the receiver is only read.
WithAttrs(h, as) ==
    /\ handlers' = Append(handlers, WithAttrsHandler(handlers[h], as))
    /\ UNCHANGED <<levelVar, pc, local, results, sink, enabledRes, enabledCalls>>

\* A WithGroup that pushes the group onto the receiver as well.
WithGroupInPlace(h, name) ==
    /\ handlers' = Append([handlers EXCEPT ![h].group = @ \o name \o "."],
                          WithGroupHandler(handlers[h], name))
    /\ UNCHANGED <<levelVar, pc, local, results, sink, enabledRes, enabledCalls>>

\* h.WithGroup(name).
WithGroup(h, name) ==
    /\ handlers' = Append(handlers, WithGroupHandler(handlers[h], name))
    /\ UNCHANGED <<levelVar, pc, local, results, sink, enabledRes, enabledCalls>>

\* Handle, up to the lock: goroutine t renders record r into its builder.
HandleBuild(t, h, r) ==
    /\ pc[t] = "idle"
    /\ local' = [local EXCEPT ![t] = [h |-> h, r |-> r, b |-> BuildLine(handlers[h], r),
                                      writes |-> 0, raced |-> FALSE, werr |-> "nil"]]
    /\ pc' = [pc EXCEPT ![t] = "lock"]
    /\ UNCHANGED <<handlers, levelVar, results, sink, enabledRes, enabledCalls>>

\* A Handle that takes the mutex without waiting for it.
HandleLockNoWait(t) ==
    /\ pc[t] = "lock"
    /\ handlers' = [handlers EXCEPT ![local[t].h].mu = t]
    /\ pc' = [pc EXCEPT ![t] = "write"]
    /\ UNCHANGED <<levelVar, local, results, sink, enabledRes, enabledCalls>>

\* h.mu.Lock(): blocks while the receiver's mutex is held.
HandleLock(t) ==
    /\ pc[t] = "lock"
    /\ handlers[local[t].h].mu = Unlocked
    /\ handlers' = [handlers EXCEPT ![local[t].h].mu = t]
    /\ pc' = [pc EXCEPT ![t] = "write"]
    /\ UNCHANGED <<levelVar, local, results, sink, enabledRes, enabledCalls>>

\* The goroutines other than t that are inside a Write to the writer of t's call.
WritingWith(t) ==
    {u \in Threads \ {t} : pc[u] = "writing" /\ handlers[local[u].h].w = handlers[local[t].h].w}

\* h.w.Write is entered with the whole builder. Writes to one writer that
\* overlap race with each other.
HandleWriteBegin(t) ==
    /\ pc[t] = "write"
    /\ local' = [u \in Threads |->
                    IF u = t THEN [local[t] EXCEPT !.writes = @ + 1, !.raced = WritingWith(t) # {}]
                    ELSE IF u \in WritingWith(t) THEN [local[u] EXCEPT !.raced = TRUE]
                    ELSE local[u]]
    /\ pc' = [pc EXCEPT ![t] = "writing"]
    /\ UNCHANGED <<handlers, levelVar, results, sink, enabledRes, enabledCalls>>

\* h.w.Write returns: the sink took the bytes, or reports an error. The bytes
\* of a Write that raced may be torn.
HandleWriteEnd(t, res, torn) ==
    /\ pc[t] = "writing"
    /\ torn => (local[t].raced /\ res = "nil")
    /\ sink' = IF res = "nil"
               THEN Append(sink, [by |-> t, call |-> Len(results[t]) + 1,
                                  data |-> IF torn THEN Torn ELSE local[t].b])
               ELSE sink
    /\ local' = [local EXCEPT ![t].werr = res]
    /\ pc' = [pc EXCEPT ![t] = "return"]
    /\ UNCHANGED <<handlers, levelVar, results, enabledRes, enabledCalls>>

\* A Handle that swallows the error of the Write.
HandleResultSwallow(l) == "nil"

\* What Handle returns: the error of the Write.
HandleResult(l) == l.werr

\* A Handle that unlocks only after a successful Write.
HandleReturnKeepLocked(t) ==
    /\ pc[t] = "return"
    /\ handlers' = IF local[t].werr = "nil"
                   THEN [handlers EXCEPT ![local[t].h].mu = Unlocked]
                   ELSE handlers
    /\ results' = [results EXCEPT ![t] = Append(@, [h |-> local[t].h, r |-> local[t].r,
                                                     b |-> local[t].b,
                                                     writes |-> local[t].writes,
                                                     werr |-> local[t].werr,
                                                     err |-> HandleResult(local[t])])]
    /\ local' = [local EXCEPT ![t] = NoCall]
    /\ pc' = [pc EXCEPT ![t] = "idle"]
    /\ UNCHANGED <<levelVar, sink, enabledRes, enabledCalls>>

\* return err, and the deferred h.mu.Unlock().
HandleReturn(t) ==
    /\ pc[t] = "return"
    /\ handlers' = [handlers EXCEPT ![local[t].h].mu = Unlocked]
    /\ results' = [results EXCEPT ![t] = Append(@, [h |-> local[t].h, r |-> local[t].r,
                                                     b |-> local[t].b,
                                                     writes |-> local[t].writes,
                                                     werr |-> local[t].werr,
                                                     err |-> HandleResult(local[t])])]
    /\ local' = [local EXCEPT ![t] = NoCall]
    /\ pc' = [pc EXCEPT ![t] = "idle"]
    /\ UNCHANGED <<levelVar, sink, enabledRes, enabledCalls>>

\* ------------------------------------------------------------------ inputs
\* The records and attributes of the package's tests.
basicAttrs == <<Attr("c", StringValue("foo")), Attr("b", BoolValue(TRUE))>>
groupAttrs == <<Attr("c", StringValue("foo")),
                Attr("g", GroupValue(<<Attr("a", IntValue(1)), Attr("d", IntValue(4))>>)),
                Attr("b", BoolValue(TRUE))>>
withAB == <<Attr("wa", IntValue(1)), Attr("wb", IntValue(2))>>
withC == <<Attr("wc", IntValue(3))>>

testRecord(as) == Record(testTime, LevelInfo, "message", 0, as)

\* The concurrent runs log these.
SmallRecords == {testRecord(basicAttrs)}
SmallAttrLists == {withC}
SmallGroups == {"p1"}

\* The scripted runs log one of these.
Records ==
    {testRecord(basicAttrs), testRecord(groupAttrs),
     Record(testTime, LevelInfo, "message", 1, basicAttrs),
     Record(testTime, LevelInfo, "message", 2, basicAttrs),
     Record(ZeroTime, 4, "disk full", 0, <<>>),
     Record(cestTime, 0 - 2, "message", 1, withC)}

InitCommon ==
    /\ levelVar = LevelInfo
    /\ pc = [t \in Threads |-> "idle"]
    /\ local = [t \in Threads |-> NoCall]
    /\ results = [t \in Threads |-> <<>>]
    /\ sink = <<>>
    /\ enabledRes = [h |-> 0, level |-> 0, min |-> 0, ok |-> FALSE]
    /\ enabledCalls = 0
    /\ ip = 0

NoInput == [script |-> <<>>, rec |-> NoCall.r]

\* Handle calls begun so far.
RECURSIVE SumLen(_, _)
SumLen(f, S) == IF S = {} THEN 0 ELSE LET x == CHOOSE y \in S : TRUE IN Len(f[x]) + SumLen(f, S \ {x})
CallsBegun == SumLen(results, Threads) + Cardinality({t \in Threads : pc[t] # "idle"})

\* ------------------------------------------------- the concurrent program
\* One root handler; any goroutine derives handlers from any handler and logs
\* through any handler.
Init ==
    /\ InitCommon
    /\ handlers = <<NewCLIHandler(W, [AddSource |-> FALSE, Level |-> NilLeveler])>>
    /\ input = NoInput

Next ==
    \/ \E h \in 1 .. Len(handlers), as \in SmallAttrLists :
          Len(handlers) < MaxHandlers /\ WithAttrs(h, as) /\ UNCHANGED driver
    \/ \E h \in 1 .. Len(handlers), name \in SmallGroups :
          Len(handlers) < MaxHandlers /\ WithGroup(h, name) /\ UNCHANGED driver
    \/ \E t \in Threads, h \in 1 .. Len(handlers), r \in SmallRecords :
          CallsBegun < MaxCalls /\ HandleBuild(t, h, r) /\ UNCHANGED driver
    \/ \E t \in Threads : HandleLock(t) /\ UNCHANGED driver
    \/ \E t \in Threads : HandleWriteBegin(t) /\ UNCHANGED driver
    \/ \E t \in Threads, res \in WriteResults, torn \in BOOLEAN :
          HandleWriteEnd(t, res, torn) /\ UNCHANGED driver
    \/ \E t \in Threads : HandleReturn(t) /\ UNCHANGED driver

Spec == Init /\ [][Next]_vars

\* The step goroutine t takes next inside Handle, if it can take one.
HandleStep(t) ==
    \/ HandleLock(t)
    \/ HandleWriteBegin(t)
    \/ \E res \in WriteResults, torn \in BOOLEAN : HandleWriteEnd(t, res, torn)
    \/ HandleReturn(t)

\* The Go scheduler runs every goroutine that can run, the Write of the sink
\* returns, and a goroutine for which the mutex stays free takes it.
Fairness == \A t \in Threads : WF_vars(HandleStep(t) /\ UNCHANGED driver)

\* The goroutines log through a root handler and a handler derived from it,
\* both made before they start.
InitFair ==
    /\ InitCommon
    /\ LET root == NewCLIHandler(W, [AddSource |-> FALSE, Level |-> NilLeveler])
       IN handlers = <<root, WithGroupHandler(root, "p1")>>
    /\ input = NoInput

NextFair ==
    \/ \E t \in Threads, h \in 1 .. Len(handlers), r \in SmallRecords :
          CallsBegun < MaxCalls /\ HandleBuild(t, h, r) /\ UNCHANGED driver
    \/ \E t \in Threads : HandleLock(t) /\ UNCHANGED driver
    \/ \E t \in Threads : HandleWriteBegin(t) /\ UNCHANGED driver
    \/ \E t \in Threads, res \in WriteResults, torn \in BOOLEAN :
          HandleWriteEnd(t, res, torn) /\ UNCHANGED driver
    \/ \E t \in Threads : HandleReturn(t) /\ UNCHANGED driver

FairSpec == InitFair /\ [][NextFair]_vars /\ Fairness

\* The sink entries that call n of goroutine t wrote.
EntriesOf(t, n) == {i \in DOMAIN sink : sink[i].by = t /\ sink[i].call = n}

\* C1: two Handle calls through handlers that share one sink are never inside
\* the sink's Write at the same time.
C1_SharedSinkSerialized ==
    \A t1, t2 \in Threads :
        (t1 # t2 /\ pc[t1] = "writing" /\ pc[t2] = "writing")
            => handlers[local[t1].h].w # handlers[local[t2].h].w

\* The Handle call that wrote a sink entry: returned, or about to return.
CallOf(e) == IF e.call <= Len(results[e.by]) THEN results[e.by][e.call] ELSE local[e.by]

\* The handlers the Handle calls made so far went through.
HandlersUsed ==
    {local[t].h : t \in {u \in Threads : pc[u] # "idle"}}
    \cup UNION {{results[t][n].h : n \in DOMAIN results[t]} : t \in Threads}

\* C2: Handle calls on one and the same handler are never inside the Write at
\* the same time; each returned call made exactly one Write, a successful one
\* put exactly one entry into the sink, and while all calls go through one
\* handler every entry is its call's whole line with the line terminator.
C2_SameHandlerWholeLines ==
    /\ \A t1, t2 \in Threads :
          (t1 # t2 /\ pc[t1] = "writing" /\ pc[t2] = "writing")
              => local[t1].h # local[t2].h
    /\ \A t \in Threads : \A n \in DOMAIN results[t] :
          /\ results[t][n].writes = 1
          /\ results[t][n].werr = "nil" => Cardinality(EntriesOf(t, n)) = 1
    /\ Cardinality(HandlersUsed) <= 1 =>
          \A i \in DOMAIN sink :
              sink[i].data = LineBody(handlers[CallOf(sink[i]).h], CallOf(sink[i]).r) \o "\n"

\* Two goroutines have logged through the same handler and the sink holds both lines.
C2_Witness ==
    \E t1, t2 \in Threads :
        /\ t1 # t2 /\ results[t1] # <<>> /\ results[t2] # <<>>
        /\ results[t1][1].h = results[t2][1].h
        /\ Len(sink) = 2
        /\ sink[1].data = "2023-09-20T12:24:43Z INFO message c=foo b=true\n"
        /\ sink[2].data = sink[1].data

\* C3: every returned Handle call made one Write and returned what that Write
\* reported: its error, or nil.
C3_ReturnsWriteResult ==
    \A t \in Threads : \A n \in DOMAIN results[t] :
        results[t][n].err = results[t][n].werr /\ results[t][n].writes = 1

\* A Handle call has returned the error of its Write.
C3_Witness ==
    \E t \in Threads : results[t] # <<>> /\ results[t][1].werr = "EIO" /\ results[t][1].err = "EIO"

\* C9: the step that returns from Handle leaves the receiver's mutex free, and
\* every Handle call waiting for the mutex returns in the end.
C9_UnlockOnReturn ==
    /\ [][\A t \in Threads :
            (pc[t] = "return" /\ pc'[t] = "idle") => handlers'[local[t].h].mu = Unlocked]_vars
    /\ \A t \in Threads : (pc[t] = "lock") ~> (pc[t] = "idle")

\* After a failed Write through a handler, another goroutine is inside the Write
\* through the same handler.
C9_Witness ==
    \E t1, t2 \in Threads :
        /\ t1 # t2 /\ results[t1] # <<>> /\ results[t1][1].werr = "EIO"
        /\ pc[t2] = "writing" /\ local[t2].h = results[t1][1].h

\* ------------------------------------------ deriving handlers, and Enabled
\* One goroutine derives handlers from any handler, asks any handler whether
\* a level is enabled, and sets the LevelVar.
InitDerive ==
    /\ InitCommon
    /\ \E opts \in HandlerOptions : handlers = <<NewCLIHandler(W, opts)>>
    /\ input = NoInput

NextDerive ==
    \/ \E h \in 1 .. Len(handlers), as \in SmallAttrLists :
          Len(handlers) < MaxTree /\ WithAttrs(h, as) /\ UNCHANGED driver
    \/ \E h \in 1 .. Len(handlers), name \in SmallGroups :
          Len(handlers) < MaxTree /\ WithGroup(h, name) /\ UNCHANGED driver
    \/ \E h \in 1 .. Len(handlers), level \in Levels :
          enabledCalls < MaxEnabledCalls /\ Enabled(h, level) /\ UNCHANGED driver
    \/ \E l \in {LevelInfo, 4} : l # levelVar /\ SetLevel(l) /\ UNCHANGED driver

DeriveSpec == InitDerive /\ [][NextDerive]_vars

\* The minimum level of a handler: the configured Level's value now, or the
\* informational level when none is configured.
MinimumLevel(hd) ==
    CASE hd.opts.Level.kind = "nil" -> 0
      [] hd.opts.Level.kind = "Level" -> hd.opts.Level.level
      [] hd.opts.Level.kind = "LevelVar" -> levelVar

\* C4: a step that is an Enabled call answers true exactly when the level is
\* at least the handler's minimum level as it is at that step, and changes
\* neither the sink nor any handler, goroutine or the LevelVar.
C4_EnabledIffAtLeastMinimum ==
    [][enabledCalls' # enabledCalls =>
          /\ enabledRes'.ok = (enabledRes'.level >= MinimumLevel(handlers[enabledRes'.h]))
          /\ UNCHANGED <<handlers, levelVar, pc, local, results, sink>>]_vars

\* Enabled was asked on a derived handler whose LevelVar had been raised to
\* the warning level, for exactly that level, and answered true.
C4_Witness ==
    /\ enabledCalls > 0 /\ enabledRes.h > 1
    /\ handlers[enabledRes.h].opts.Level.kind = "LevelVar"
    /\ levelVar = 4 /\ enabledRes.min = 4 /\ enabledRes.level = 4 /\ enabledRes.ok

\* C5: no step changes the group prefix, the attribute suffix or the options
\* of a handler that exists, so each renders every record as before.
C5_ReceiverUnchanged ==
    [][handlers' # handlers => \A i \in DOMAIN handlers :
          /\ i \in DOMAIN handlers'
          /\ handlers'[i].group = handlers[i].group
          /\ handlers'[i].attrs = handlers[i].attrs
          /\ handlers'[i].opts = handlers[i].opts
          /\ \A r \in Records : BuildLine(handlers'[i], r) = BuildLine(handlers[i], r)]_vars

\* The root has been the receiver of WithGroup, the handler that returned the
\* receiver of WithAttrs; the root has no group and no attrs, the second the
\* group only, the third both.
C5_Witness ==
    /\ Len(handlers) = 3
    /\ handlers[1].group = "" /\ handlers[1].attrs = ""
    /\ handlers[2].group = "p1." /\ handlers[2].attrs = ""
    /\ handlers[3].group = "p1." /\ handlers[3].attrs = " p1.wc=3"

\* ------------------------------------------------------------ scripted runs
\* One goroutine runs a script: a chain of WithAttrs and WithGroup calls, each
\* on the handler the call before returned, then one Handle of a record through
\* the last handler.
WithAttrsOp(as) == [kind |-> "WithAttrs", attrs |-> as, name |-> ""]
WithGroupOp(name) == [kind |-> "WithGroup", attrs |-> <<>>, name |-> name]

ScriptOps == {WithAttrsOp(withAB), WithAttrsOp(withC), WithGroupOp("p1"), WithGroupOp("p2")}

RECURSIVE SeqsUpTo(_, _)
SeqsUpTo(S, n) ==
    IF n = 0 THEN {<<>>}
    ELSE LET shorter == SeqsUpTo(S, n - 1)
         IN shorter \cup {Append(q, x) : q \in {p \in shorter : Len(p) = n - 1}, x \in S}

\* The goroutine of a scripted run.
Main == CHOOSE t \in Threads : \A u \in Threads : t <= u

ScriptWithAttrs ==
    /\ ip < Len(input.script) /\ input.script[ip + 1].kind = "WithAttrs"
    /\ WithAttrs(Len(handlers), input.script[ip + 1].attrs)
    /\ ip' = ip + 1 /\ UNCHANGED input

ScriptWithGroup ==
    /\ ip < Len(input.script) /\ input.script[ip + 1].kind = "WithGroup"
    /\ WithGroup(Len(handlers), input.script[ip + 1].name)
    /\ ip' = ip + 1 /\ UNCHANGED input

ScriptHandle ==
    /\ ip = Len(input.script) /\ results[Main] = <<>>
    /\ HandleBuild(Main, Len(handlers), input.rec)
    /\ UNCHANGED driver

NextScript ==
    \/ ScriptWithAttrs
    \/ ScriptWithGroup
    \/ ScriptHandle
    \/ HandleLock(Main) /\ UNCHANGED driver
    \/ HandleWriteBegin(Main) /\ UNCHANGED driver
    \/ \E res \in WriteResults, torn \in BOOLEAN :
          HandleWriteEnd(Main, res, torn) /\ UNCHANGED driver
    \/ HandleReturn(Main) /\ UNCHANGED driver

InitScript ==
    /\ InitCommon
    /\ \E as \in BOOLEAN : handlers = <<NewCLIHandler(W, [AddSource |-> as, Level |-> NilLeveler])>>
    /\ input \in [script : SeqsUpTo(ScriptOps, MaxChain), rec : Records]

ScriptSpec == InitScript /\ [][NextScript]_vars

\* ---- the rendering the claims describe, computed from the call history
\* The leaves of an attribute list in document order, each with the keys of
\* its enclosing groups, outermost first. The empty attribute is no attribute.
RECURSIVE LeavesOf(_, _)
LeavesOf(as, path) ==
    IF as = <<>> THEN <<>>
    ELSE LET a == Head(as)
         IN (IF a.Value.Kind = "Group" THEN LeavesOf(a.Value.group, Append(path, a.Key))
             ELSE IF a = EmptyAttr THEN <<>>
             ELSE <<[path |-> path, key |-> a.Key, value |-> a.Value]>>)
            \o LeavesOf(Tail(as), path)

\* '<groupKey>.' for each key of the path that is not empty.
RECURSIVE Dotted(_)
Dotted(path) ==
    IF path = <<>> THEN ""
    ELSE (IF Head(path) # "" THEN Head(path) \o "." ELSE "") \o Dotted(Tail(path))

RECURSIVE Fragments(_, _)
Fragments(start, leaves) ==
    IF leaves = <<>> THEN ""
    ELSE " " \o start \o Dotted(Head(leaves).path) \o Head(leaves).key \o "="
         \o ValueString(Head(leaves).value) \o Fragments(start, Tail(leaves))

\* The names of the groups pushed by the operations, each with its dot.
RECURSIVE PushedGroups(_)
PushedGroups(ops) ==
    IF ops = <<>> THEN ""
    ELSE (IF Head(ops).kind = "WithGroup" THEN Head(ops).name \o "." ELSE "")
         \o PushedGroups(Tail(ops))

\* The attributes bound by the first n operations, earlier calls first, each
\* under the groups pushed before its own call.
RECURSIVE BoundAttrs(_, _)
BoundAttrs(ops, n) ==
    IF n = 0 THEN ""
    ELSE BoundAttrs(ops, n - 1)
         \o (IF ops[n].kind = "WithAttrs"
             THEN Fragments(PushedGroups(SubSeq(ops, 1, n - 1)), LeavesOf(ops[n].attrs, <<>>))
             ELSE "")

\* The line the script's Handle call is to write.
ExpectedLine ==
    LineHead(handlers[1].opts, input.rec)
    \o BoundAttrs(input.script, Len(input.script))
    \o Fragments(PushedGroups(input.script), LeavesOf(input.rec.Attrs, <<>>))
    \o "\n"

\* C6: after any chain of WithAttrs and WithGroup calls, each handler holds the
\* attributes bound so far, earlier calls first, each under the groups pushed
\* before its own WithAttrs call, and Handle writes them before the record's
\* attributes, which are under all the groups pushed.
C6_BoundThenRecordAttrs ==
    /\ \A i \in DOMAIN handlers :
          /\ handlers[i].attrs = BoundAttrs(input.script, i - 1)
          /\ handlers[i].group = PushedGroups(SubSeq(input.script, 1, i - 1))
    /\ \A i \in DOMAIN sink : sink[i].data = ExpectedLine

\* The run of the package's test "WithAttrs,WithGroup" has written its line.
C6_Witness ==
    /\ input.script = <<WithAttrsOp(withAB), WithGroupOp("p1"), WithAttrsOp(withC), WithGroupOp("p2")>>
    /\ input.rec = testRecord(basicAttrs)
    /\ sink = <<[by |-> Main, call |-> 1,
                 data |-> "2023-09-20T12:24:43Z INFO message wa=1 wb=2 p1.wc=3 p1.p2.c=foo p1.p2.b=true\n"]>>

\* The source segment as the code writes it: nothing without AddSource or
\* without a location, the frame's file and line for a location that
\* resolves, and the zero frame's ":0" for one that does not.
SourceSegment(opts, r) ==
    IF ~opts.AddSource \/ r.PC = 0 THEN ""
    ELSE IF r.PC \in DOMAIN SymTab
         THEN SymTab[r.PC].File \o ":" \o IntToStr(SymTab[r.PC].Line) \o " "
         ELSE ":0 "

\* The line with a given source segment between the level and the message.
LineWithSource(seg) ==
    (IF ~IsZero(input.rec.Time) THEN FormatRFC3339(input.rec.Time) \o " " ELSE "")
    \o LevelString(input.rec.Level) \o " " \o seg \o input.rec.Message
    \o handlers[Len(handlers)].attrs
    \o appendAttrs(handlers[Len(handlers)].group, input.rec.Attrs) \o "\n"

Unresolved == handlers[1].opts.AddSource /\ input.rec.PC # 0 /\ input.rec.PC \notin DOMAIN SymTab

GenLeaves == {EmptyAttr, Attr("k", AnyValue), Attr("", IntValue(1)), Attr("k", IntValue(1))}
GenGroupKeys == {"", "g"}

\* AttrsOfSize(n): the attributes made of n attributes, itself and the members
\* of its groups at every depth. ListsOfSize(n): the lists made of n.
RECURSIVE AttrsOfSize(_)
RECURSIVE ListsOfSize(_)
AttrsOfSize(n) ==
    (IF n = 1 THEN GenLeaves ELSE {})
    \cup {Attr(k, GroupValue(as)) : k \in GenGroupKeys, as \in ListsOfSize(n - 1)}

ListsOfSize(n) ==
    IF n = 0 THEN {<<>>}
    ELSE UNION {{<<a>> \o rest : a \in AttrsOfSize(k), rest \in ListsOfSize(n - k)} : k \in 1 .. n}

\* The lists made of at most n attributes.
GenLists(n) == UNION {ListsOfSize(k) : k \in 0 .. n}

\* The scripted run with a generated list, either bound by a last WithAttrs
\* call or carried by the record, at the root or under a pushed group.
AttrInputs(n) ==
    LET pres == {<<>>, <<WithGroupOp("p1")>>}
    IN {[script |-> pre \o <<WithAttrsOp(as)>>, rec |-> Record(ZeroTime, LevelInfo, "m", 0, withC)] :
            pre \in pres, as \in GenLists(n)}
       \cup {[script |-> pre \o <<WithAttrsOp(withC)>>, rec |-> Record(ZeroTime, LevelInfo, "m", 0, as)] :
            pre \in pres, as \in GenLists(n)}
       \cup {[script |-> <<>>, rec |-> testRecord(groupAttrs)]}

InitAttr ==
    /\ InitCommon
    /\ handlers = <<NewCLIHandler(W, [AddSource |-> FALSE, Level |-> NilLeveler])>>
    /\ input \in AttrInputs(MaxSize)

AttrSpec == InitAttr /\ [][NextScript]_vars

\* The handler the script's Handle call goes through.
Last == handlers[Len(handlers)]

\* C7: what WithAttrs appends to the receiver's attrs, and what Handle writes
\* after them for the record's list, is one ' <prefix><key>=<value>' per leaf
\* of the list, in document order, duplicates kept, the prefix being the
\* handler's group prefix and '<groupKey>.' for each enclosing group whose key
\* is not empty; a group with the empty key only forwards its children.
C7_FlattenInDocumentOrder ==
    /\ \A i \in DOMAIN handlers :
          (i > 1 /\ input.script[i - 1].kind = "WithAttrs") =>
              handlers[i].attrs =
                  handlers[i - 1].attrs
                  \o Fragments(handlers[i - 1].group, LeavesOf(input.script[i - 1].attrs, <<>>))
    /\ \A i \in DOMAIN sink :
          sink[i].data =
              LineHead(Last.opts, input.rec) \o Last.attrs
              \o Fragments(Last.group, LeavesOf(input.rec.Attrs, <<>>)) \o "\n"

\* The run of the package's test "group" has written its line.
C7_Witness ==
    /\ input.rec = testRecord(groupAttrs)
    /\ sink = <<[by |-> Main, call |-> 1,
                 data |-> "2023-09-20T12:24:43Z INFO message c=foo g.a=1 g.d=4 b=true\n"]>>

\* A list without the attributes that have the zero Value, whatever their key,
\* at every depth.
RECURSIVE StripZeroValued(_)
StripZeroValued(as) ==
    IF as = <<>> THEN <<>>
    ELSE LET a == Head(as)
         IN (IF a.Value.Kind = "Group"
             THEN <<Attr(a.Key, GroupValue(StripZeroValued(a.Value.group)))>>
             ELSE IF a.Value = AnyValue THEN <<>> ELSE <<a>>)
            \o StripZeroValued(Tail(as))

\* A list without the attributes that have the empty key and the zero Value,
\* at every depth.
RECURSIVE StripEmpty(_)
StripEmpty(as) ==
    IF as = <<>> THEN <<>>
    ELSE LET a == Head(as)
         IN (IF a.Value.Kind = "Group"
             THEN <<Attr(a.Key, GroupValue(StripEmpty(a.Value.group)))>>
             ELSE IF a.Key = "" /\ a.Value = AnyValue THEN <<>> ELSE <<a>>)
            \o StripEmpty(Tail(as))

\* C8 as claimed: an attribute with the zero Value adds no byte whatever its
\* key: WithAttrs binds, and Handle writes, what they do for the list without
\* those attributes.
C8_ZeroValueNoBytes ==
    /\ \A i \in DOMAIN handlers :
          (i > 1 /\ input.script[i - 1].kind = "WithAttrs") =>
              handlers[i].attrs =
                  handlers[i - 1].attrs
                  \o appendAttrs(handlers[i - 1].group, StripZeroValued(input.script[i - 1].attrs))
    /\ \A i \in DOMAIN sink :
          sink[i].data =
              LineHead(Last.opts, input.rec) \o Last.attrs
              \o appendAttrs(Last.group, StripZeroValued(input.rec.Attrs)) \o "\n"

\* C8 amended: an attribute with the empty key and the zero Value adds no byte,
\* in the list given to WithAttrs, in a record given to Handle, or in a group:
\* WithAttrs binds, and Handle writes, what they do for the list without those
\* attributes.
C8_EmptyAttrNoBytes ==
    /\ \A i \in DOMAIN handlers :
          (i > 1 /\ input.script[i - 1].kind = "WithAttrs") =>
              handlers[i].attrs =
                  handlers[i - 1].attrs
                  \o appendAttrs(handlers[i - 1].group, StripEmpty(input.script[i - 1].attrs))
    /\ \A i \in DOMAIN sink :
          sink[i].data =
              LineHead(Last.opts, input.rec) \o Last.attrs
              \o appendAttrs(Last.group, StripEmpty(input.rec.Attrs)) \o "\n"

\* A record with the empty attribute, alone and in a group, has been written
\* through a handler that WithAttrs returned for a list holding it.
C8_Witness ==
    /\ input.rec.Attrs = <<EmptyAttr, Attr("g", GroupValue(<<EmptyAttr>>))>>
    /\ input.script = <<WithAttrsOp(withC)>>
    /\ sink = <<[by |-> Main, call |-> 1, data |-> "INFO m wc=3\n"]>>

====
